---- MODULE Spec2Model ----
(***************************************************************************)
(* Crossley Gate Monitor (src/crossley-gate/main.py): the sampling window, *)
(* the classification of the measured duration, the confirmation state     *)
(* machine and the notification throttle of read_gate, and the outer loop. *)
(*                                                                         *)
(* Numbers.  time_count and led_on_count are MicroPython floats built by   *)
(* repeated "+= 0.1".  The ESP32 port has single-precision floats, so a    *)
(* float is modelled exactly as the integer  value * 2^27  (every value    *)
(* the program forms is a multiple of 2^-27 below 2^31 in this scale), and *)
(* an addition rounds to 24 significant bits, ties to even.  (With IEEE    *)
(* doubles the same comparisons come out the same way for every count of   *)
(* additions the loop can make.)                                           *)
(***************************************************************************)
EXTENDS Integers, Sequences, FiniteSets, TLC

(* ---------------- single-precision float arithmetic ------------------- *)

Scale == 134217728        \* 2^27: one unit of the representation is 2^-27
Mant  == 16777216         \* 2^24: a float has 24 significant bits

Abs(x) == IF x < 0 THEN -x ELSE x

\* spacing of the floats around the magnitude a (in units of 2^-27)
RECURSIVE Ulp(_)
Ulp(a) == IF a < Mant THEN 1 ELSE 2 * Ulp(a \div 2)

\* round the exact value x to the nearest float, ties to even
FRound(x) ==
    LET a == Abs(x)
        u == Ulp(a)
        q == a \div u
        r == a % u
        m == IF 2 * r > u \/ (2 * r = u /\ q % 2 = 1) THEN q + 1 ELSE q
    IN  IF x < 0 THEN -(m * u) ELSE m * u

\* the float a decimal literal n/d denotes (0.1 is FLit(1,10), 5 is FLit(5,1))
FLit(n, d) ==
    LET x == n * Scale
        q == x \div d
        r == x % d
    IN  FRound(IF 2 * r >= d THEN q + 1 ELSE q)

FAdd(a, b) == FRound(a + b)

Tenth == FLit(1, 10)      \* the literal 0.1   (lines 167, 171, 176)
Five  == FLit(5, 1)       \* the literal 5     (line 160)

(* ---------------- the status table (lines 124-149) -------------------- *)

gate_status_options == <<0, 1, 2>>
Statuses == {gate_status_options[i] : i \in 1..Len(gate_status_options)}

\* Python lists are indexed from 0: Tab(<<a,b,c>>) is the list [a,b,c]
Tab(t) == [x \in 0..(Len(t) - 1) |-> t[x + 1]]

gate_status_string ==
    Tab(<<"Gate closed", "Gate OPEN", "Gate has an AC power or battery failure">>)
gate_status_string_repeat ==
    Tab(<<"Gate closed", "Gate still OPEN", "Gate has an AC power or battery failure">>)
gate_status_time ==
    Tab(<< <<FLit(0, 1), FLit(0, 1)>>,
           <<FLit(2, 1), FLit(6, 1)>>,
           <<FLit(5, 10), FLit(15, 10)>> >>)
\* "closed" reported as well
gate_status_report_all == Tab(<<1, 1, 1>>)
gate_status_report  == Tab(<<0, 1, 1>>)
gate_status_wait    == Tab(<<0, 300, 1800>>)
\* "open" confirmed as well
gate_status_confirm_all == Tab(<<1, 1, 1>>)
gate_status_confirm == Tab(<<1, 0, 1>>)

(* ---------------- bounds of the model ---------------------------------- *)

ClockStep == 100    \* the clock moves in steps of ClockStep or 2*ClockStep seconds
MaxTime   == 2100   \* the clock is followed up to MaxTime seconds
MaxPulse  == 52     \* an atomic window sees a pulse of up to MaxPulse asserted readings
MaxOffset == 1      \* ... that starts after up to MaxOffset unasserted readings

ClockSteps == {ClockStep, 2 * ClockStep}

(* ---------------- state ------------------------------------------------ *)

VARIABLES
    pc,                         \* where control is
    clock,                      \* what time.time() returns (seconds)
    gate_status,                \* line 124
    gate_status_tobeconfirmed,  \* line 149
    gate_status_lastupdate,     \* line 152
    time_count,                 \* line 157 (float)
    led_on_count,               \* line 158 (float)
    new_gate_status,            \* line 159
    on_ticks,                   \* history: how many times line 171 ran in this window
    t_ticks,                    \* history: passes of the loop since time_count was last 0
    pin,                        \* history: the last reading of the input (-1: none yet)
    first_pin,                  \* history: the first reading of this window (-1: none yet)
    before,                     \* history: gate_status when the window was classified
    classified,                 \* history: <<class of the window before, class of this window>>
    readAt,                     \* history: time.time() as read at line 194 / 215 / 232
    notified,                   \* history: messages passed to notify in this cycle
    alertedAt,                  \* history: when notify was called for the current status,
                                \*          <<the time before, the last time>> (-1: never)
    scenB,                      \* history: 3.0-second windows in a row, starting closed
    allZero                     \* history: every window so far measured 0 s

sampler == <<time_count, led_on_count, on_ticks, t_ticks, pin, first_pin>>
monitor == <<gate_status, gate_status_tobeconfirmed, gate_status_lastupdate>>
history == <<before, classified, readAt, notified, alertedAt, scenB, allZero>>
vars == <<pc, clock, sampler, new_gate_status, monitor, history>>

\* the module starts; read_gate's locals hold what lines 124-152 give them
Init ==
    /\ pc = "connect"
    /\ clock = 0
    /\ gate_status = 0
    /\ gate_status_tobeconfirmed = -1
    /\ gate_status_lastupdate = 0
    /\ time_count = 0
    /\ led_on_count = 0
    /\ new_gate_status = 0
    /\ on_ticks = 0
    /\ t_ticks = 0
    /\ pin = -1
    /\ first_pin = -1
    /\ before = 0
    /\ classified = <<-1, -1>>
    /\ readAt = 0
    /\ notified = <<>>
    /\ alertedAt = <<-1, -1>>
    /\ scenB = 0
    /\ allZero = TRUE

\* lines 241-248 and 124-152: connect_wifi returns, read_gate starts
Connect ==
    /\ pc = "connect"
    /\ pc' = "window"
    /\ gate_status' = 0
    /\ gate_status_tobeconfirmed' = -1
    /\ gate_status_lastupdate' = clock
    /\ UNCHANGED <<clock, sampler, new_gate_status, history>>

(* ---------------- the sampling window (lines 157-177) ----------------- *)

\* the reading that restarts the count is credited as well
SampleStepCredits(s, v) ==
    LET fp == IF s.fp = -1 THEN v ELSE s.fp
    IN  IF v = 1
        THEN IF s.tc > 0 /\ s.lc = 0
             THEN [tc |-> FAdd(-Tenth, Tenth), lc |-> FAdd(s.lc, Tenth),
                   on |-> s.on + 1, tt |-> 0, pin |-> v, fp |-> fp]
             ELSE [tc |-> FAdd(s.tc, Tenth), lc |-> FAdd(s.lc, Tenth),
                   on |-> s.on + 1, tt |-> s.tt + 1, pin |-> v, fp |-> fp]
        ELSE [tc |-> FAdd(s.tc, Tenth), lc |-> s.lc,
              on |-> s.on, tt |-> s.tt + 1, pin |-> v, fp |-> fp]

\* one pass of the inner loop's body (lines 162-176) on the reading pin
\* (tc, lc: time_count, led_on_count; on, tt, pin, fp: the history variables)
SampleStep(s, v) ==
    LET fp == IF s.fp = -1 THEN v ELSE s.fp
    IN  IF v = 1
        THEN IF s.tc > 0 /\ s.lc = 0
             THEN [tc |-> FAdd(-Tenth, Tenth), lc |-> s.lc,
                   on |-> s.on, tt |-> 0, pin |-> v, fp |-> fp]
             ELSE [tc |-> FAdd(s.tc, Tenth), lc |-> FAdd(s.lc, Tenth),
                   on |-> s.on + 1, tt |-> s.tt + 1, pin |-> v, fp |-> fp]
        ELSE [tc |-> FAdd(s.tc, Tenth), lc |-> s.lc,
              on |-> s.on, tt |-> s.tt + 1, pin |-> v, fp |-> fp]

\* the window as lines 157-158 leave it
FreshWindow == [tc |-> 0, lc |-> 0, on |-> 0, tt |-> 0, pin |-> -1, fp |-> -1]

\* the sampler's variables take the values of s
Sampled(s) ==
    /\ time_count' = s.tc
    /\ led_on_count' = s.lc
    /\ on_ticks' = s.on
    /\ t_ticks' = s.tt
    /\ pin' = s.pin
    /\ first_pin' = s.fp

\* the sampler's variables as a record
Sampler ==
    [tc |-> time_count, lc |-> led_on_count, on |-> on_ticks,
     tt |-> t_ticks, pin |-> pin, fp |-> first_pin]

\* the status of the window before is kept
KeepStatus(prev) == prev

\* line 159: new_gate_status starts every window as 0, whatever it was
ResetStatus(prev) == 0

\* lines 157-159
StartWindow ==
    /\ pc = "window"
    /\ pc' = "sample"
    /\ Sampled(FreshWindow)
    /\ new_gate_status' = ResetStatus(new_gate_status)
    /\ notified' = <<>>
    /\ UNCHANGED <<clock, monitor, before, classified, readAt, alertedAt, scenB, allZero>>

\* line 160 true, then lines 162-177
Tick ==
    /\ pc = "sample"
    /\ time_count < Five
    /\ \E v \in {0, 1} : Sampled(SampleStep(Sampler, v))
    /\ UNCHANGED <<pc, clock, new_gate_status, monitor, history>>

\* line 160 false
LoopExit ==
    /\ pc = "sample"
    /\ ~(time_count < Five)
    /\ pc' = "classify"
    /\ UNCHANGED <<clock, sampler, new_gate_status, monitor, history>>

(* ---------------- classification (lines 179-181) ---------------------- *)

InBand(d, x) == d >= gate_status_time[x][1] /\ d <= gate_status_time[x][2]

\* the for loop from index x on, with n the value new_gate_status has so far
RECURSIVE ClassifyFrom(_, _, _)
ClassifyFrom(d, x, n) ==
    IF x >= Len(gate_status_options) THEN n
    ELSE ClassifyFrom(d, x + 1, IF InBand(d, x) THEN gate_status_options[x + 1] ELSE n)

Classify ==
    /\ pc = "classify"
    /\ pc' = "decide"
    /\ new_gate_status' = ClassifyFrom(led_on_count, 0, new_gate_status)
    /\ UNCHANGED <<clock, sampler, monitor, history>>

(* ---------------- a whole window in one step --------------------------- *)

\* the reading at pass i when k asserted readings follow o unasserted ones
PulsePin(o, k, i) == IF i >= o /\ i < o + k THEN 1 ELSE 0

\* the inner loop (lines 160-177) from pass i on
RECURSIVE RunLoop(_, _, _, _)
RunLoop(s, o, k, i) ==
    IF s.tc < Five THEN RunLoop(SampleStep(s, PulsePin(o, k, i)), o, k, i + 1) ELSE s

\* what the loop leaves for each of the pulses an atomic window is given
PulseWindows ==
    [o \in 0..MaxOffset, k \in 0..MaxPulse |->
        RunLoop(FreshWindow, o, k, 0)]

\* lines 157-177 on a pulse of k asserted readings after o unasserted ones
Window ==
    /\ pc = "window"
    /\ \E o \in 0..MaxOffset, k \in 0..MaxPulse :
         Sampled(PulseWindows[o, k])
    /\ new_gate_status' = ResetStatus(new_gate_status)
    /\ notified' = <<>>
    /\ pc' = "classify"
    /\ UNCHANGED <<clock, monitor, before, classified, readAt, alertedAt, scenB, allZero>>

(* ---------------- the status decision (lines 183-238) ------------------ *)

\* the window measured 3.0 s: line 171 ran 30 times
ThreeSeconds == on_ticks = 30

\* what the history variables record when a classified window is decided at time t
Record(t) ==
    /\ before' = gate_status
    /\ classified' = <<classified[2], new_gate_status>>
    /\ readAt' = t
    /\ scenB' = IF ThreeSeconds /\ gate_status = 0 /\ scenB # 1 THEN 1
                ELSE IF ThreeSeconds /\ scenB = 1 THEN 2
                ELSE 0
    /\ allZero' = (allZero /\ on_ticks = 0)

\* "if v:" on a number
Truthy(v) == v # 0

\* every status reported
ReportsAlways(n) == TRUE

\* lines 188, 217, 234: are notifications sent for status n?
Reports(n) == Truthy(gate_status_report[n])

\* every status confirmed
NeedsConfirmAlways(n) == TRUE

\* line 207: must status n be confirmed?
NeedsConfirm(n) == Truthy(gate_status_confirm[n])

\* the label of a lasting status sent for a change
CommitMessageRepeat(n) == gate_status_string_repeat[n]

\* lines 220, 237: the message of a change to status n
CommitMessage(n) == gate_status_string[n]

\* line 199: the message while status n lasts
RepeatMessage(n) == gate_status_string_repeat[n]

\* notify is called with msg at time t; first says the status has just changed
Call(msg, t, first) ==
    /\ notified' = Append(notified, msg)
    /\ alertedAt' = <<IF first THEN -1 ELSE alertedAt[2], t>>

NoCall(first) ==
    /\ notified' = notified
    /\ alertedAt' = IF first THEN <<-1, -1>> ELSE alertedAt

\* due only once the waiting time is exceeded
DueStrict(t, n) == t - (gate_status_lastupdate + gate_status_wait[n]) > 0

\* the waiting time forgotten
DueAtOnce(t, n) == t - gate_status_lastupdate >= 0

\* line 196: has the waiting time of status n passed at time t?
Due(t, n) == t - (gate_status_lastupdate + gate_status_wait[n]) >= 0

\* the unchanged branch drops the pending confirmation
UnchangedClearsPending ==
    /\ pc = "decide"
    /\ new_gate_status = gate_status
    /\ \E d \in ClockSteps :
         LET t == clock + d IN
         /\ t <= MaxTime
         /\ clock' = t
         /\ Record(t)
         /\ IF Reports(new_gate_status) /\ Due(t, new_gate_status)
            THEN /\ Call(RepeatMessage(new_gate_status), t, FALSE)
                 /\ pc' = "notify_repeat"
            ELSE /\ NoCall(FALSE)
                 /\ pc' = "window"
    /\ gate_status_tobeconfirmed' = -1
    /\ UNCHANGED <<sampler, new_gate_status, gate_status, gate_status_lastupdate>>

\* lines 183-201: the status has not changed
Unchanged ==
    /\ pc = "decide"
    /\ new_gate_status = gate_status
    /\ \E d \in ClockSteps :
         LET t == clock + d IN
         /\ t <= MaxTime
         /\ clock' = t
         /\ Record(t)
         /\ IF Reports(new_gate_status) /\ Due(t, new_gate_status)
            THEN /\ Call(RepeatMessage(new_gate_status), t, FALSE)
                 /\ pc' = "notify_repeat"
            ELSE /\ NoCall(FALSE)
                 /\ pc' = "window"
    /\ UNCHANGED <<sampler, new_gate_status, monitor>>

\* lines 202-226: the status has changed to one that must be confirmed
Confirming ==
    /\ pc = "decide"
    /\ new_gate_status # gate_status
    /\ NeedsConfirm(new_gate_status)
    /\ \E d \in ClockSteps :
         LET t == clock + d IN
         /\ t <= MaxTime
         /\ clock' = t
         /\ Record(t)
         /\ IF gate_status_tobeconfirmed = new_gate_status
            THEN /\ gate_status' = new_gate_status
                 /\ gate_status_lastupdate' = t
                 /\ IF Reports(new_gate_status)
                    THEN /\ Call(CommitMessage(new_gate_status), t, TRUE)
                         /\ pc' = "notify_confirmed"
                         /\ UNCHANGED gate_status_tobeconfirmed
                    ELSE /\ NoCall(TRUE)
                         /\ pc' = "window"
                         /\ gate_status_tobeconfirmed' = -1
            ELSE /\ gate_status_tobeconfirmed' = new_gate_status
                 /\ NoCall(FALSE)
                 /\ pc' = "window"
                 /\ UNCHANGED <<gate_status, gate_status_lastupdate>>
    /\ UNCHANGED <<sampler, new_gate_status>>

\* lines 227-238: the status has changed to one that needs no confirmation
Immediate ==
    /\ pc = "decide"
    /\ new_gate_status # gate_status
    /\ ~NeedsConfirm(new_gate_status)
    /\ \E d \in ClockSteps :
         LET t == clock + d IN
         /\ t <= MaxTime
         /\ clock' = t
         /\ Record(t)
         /\ gate_status' = new_gate_status
         /\ gate_status_lastupdate' = t
         /\ IF Reports(new_gate_status)
            THEN /\ Call(CommitMessage(new_gate_status), t, TRUE)
                 /\ pc' = "notify_immediate"
            ELSE /\ NoCall(TRUE)
                 /\ pc' = "window"
    /\ UNCHANGED <<sampler, new_gate_status, gate_status_tobeconfirmed>>

(* ---------------- notify (lines 82-111) and what follows it ------------ *)

InNotify == pc \in {"notify_repeat", "notify_confirmed", "notify_immediate"}

\* gate_status_tobeconfirmed is never reset
ClearsPendingNever(p) == FALSE

\* line 238 forgotten
ClearsPendingConfirmedOnly(p) == p = "notify_confirmed"

\* lines 222, 238: after the notify of a change, gate_status_tobeconfirmed is reset
ClearsPending(p) == p \in {"notify_confirmed", "notify_immediate"}

\* notify returns after d seconds; then line 201, line 222 or line 238
NotifyReturns ==
    /\ InNotify
    /\ \E d \in ClockSteps :
         /\ clock + d <= MaxTime
         /\ clock' = clock + d
         /\ gate_status_lastupdate' =
                IF pc = "notify_repeat" THEN clock + d ELSE gate_status_lastupdate
         /\ gate_status_tobeconfirmed' =
                IF ClearsPending(pc) THEN -1 ELSE gate_status_tobeconfirmed
    /\ pc' = "window"
    /\ UNCHANGED <<sampler, new_gate_status, gate_status, history>>

\* urequests.post raises (line 109): nothing catches it, not read_gate and not
\* the loop of lines 241-248, so the script ends
NotifyRaises ==
    /\ InNotify
    /\ pc' = "terminated"
    /\ UNCHANGED <<clock, sampler, new_gate_status, monitor, history>>

Next ==
    \/ Connect
    \/ Window
    \/ Classify
    \/ Unchanged
    \/ Confirming
    \/ Immediate
    \/ NotifyReturns
    \/ NotifyRaises

Spec == Init /\ [][Next]_vars

(* ---------------- the first window, reading by reading ----------------- *)

SamplerNext == Connect \/ StartWindow \/ Tick \/ LoopExit \/ Classify

SamplerSpec == Init /\ [][SamplerNext]_vars


\* the scheduler keeps running the loop: a pass that can be made is made
FairSamplerSpec == SamplerSpec /\ WF_vars(Tick) /\ WF_vars(LoopExit)

(* ======================= properties ==================================== *)

\* the last window has been decided (and the next has not yet been sampled)
AfterDecision ==
    /\ pc \in {"window", "notify_repeat", "notify_confirmed", "notify_immediate", "terminated"}
    /\ classified[2] # -1

\* the cycle of the last window is over: control is back at line 157
CycleOver == pc = "window" /\ classified[2] # -1

\* the last window changed gate_status
Committed == AfterDecision /\ before # gate_status

ConfirmedStatuses == {n \in Statuses : gate_status_confirm[n] # 0}

\* C1: a status that must be confirmed becomes gate_status only in a window
\* classified as that status whose preceding window was classified as that
\* status too.
C1_TwoWindowsInARow ==
    (Committed /\ gate_status \in ConfirmedStatuses)
        => (classified[2] = gate_status /\ classified[1] = gate_status)

\* C2: a repeated-occurrence alert is emitted no earlier than
\* gate_status_lastupdate + gate_status_wait[gate_status], and no earlier than
\* that waiting time after the alert emitted before it for the same, unchanged
\* status.
C2_RepeatAfterCooldown ==
    pc = "notify_repeat" =>
        /\ readAt >= gate_status_lastupdate + gate_status_wait[gate_status]
        /\ alertedAt[2] = readAt
        /\ alertedAt[1] >= 0
        /\ alertedAt[2] - alertedAt[1] >= gate_status_wait[gate_status]

\* a repeated alert for the power failure status, on the second of its cooldown
C2_Witness ==
    /\ pc = "notify_repeat"
    /\ gate_status = 2
    /\ alertedAt[2] - alertedAt[1] = gate_status_wait[2]

\* C3: a committed change to an alertable status calls notify exactly once in
\* that cycle, with the first-occurrence label of the status, and sets
\* gate_status_lastupdate to the time read in that cycle.
C3_CommitAlerts ==
    (Committed /\ gate_status_report[gate_status] # 0)
        => /\ notified = <<gate_status_string[gate_status]>>
           /\ gate_status_lastupdate = readAt

\* a confirmed change to "power failure" has been committed with its one alert
C3_Witness ==
    /\ CycleOver
    /\ Committed
    /\ gate_status = 2
    /\ notified = <<gate_status_string[2]>>

\* C4: a status that needs no confirmation is gate_status once the first
\* window classified as it has been decided.
C4_ImmediateCommit ==
    (AfterDecision /\ gate_status_confirm[classified[2]] = 0)
        => gate_status = classified[2]

\* "open" committed from "power failure" while "closed" was awaiting confirmation
C4_Witness ==
    /\ AfterDecision
    /\ classified = <<0, 1>>
    /\ before = 2
    /\ gate_status = 1

\* C5: notify is never called for a status whose gate_status_report entry is 0.
C5_NoAlertForSilentStatus ==
    /\ InNotify => gate_status_report[new_gate_status] # 0
    /\ \A i \in 1..Len(notified) : \A n \in Statuses :
          notified[i] \in {gate_status_string[n], gate_status_string_repeat[n]}
              => gate_status_report[n] # 0

\* "closed" is committed, and later stays current, without a call of notify
C5_Witness ==
    /\ CycleOver
    /\ gate_status = 0
    /\ classified = <<0, 0>>
    /\ gate_status_lastupdate > 0
    /\ clock >= gate_status_lastupdate + 2 * ClockStep
    /\ notified = <<>>

\* the bands of the status table in readings of 0.1 s (line 138)
BandTicks == Tab(<< <<0, 0>>, <<20, 60>>, <<5, 15>> >>)
BandsOf(n) == {x \in 0..2 : BandTicks[x][1] <= n /\ n <= BandTicks[x][2]}
LastBandOf(n) == CHOOSE x \in BandsOf(n) : \A y \in BandsOf(n) : y <= x

\* C6: a duration of 0..50 readings that lies in a band of the table is
\* classified as the status of the last band that contains it.
C6_ClassifiedByBand ==
    (pc = "decide" /\ on_ticks <= 50 /\ BandsOf(on_ticks) # {})
        => new_gate_status = gate_status_options[LastBandOf(on_ticks) + 1]

\* C7 as stated: from "closed", one window of 3.0 s leaves gate_status alone
\* and the second window of 3.0 s commits "open" with its one alert.
C7_AsStated ==
    /\ (AfterDecision /\ scenB = 1) => (gate_status = 0 /\ notified = <<>>)
    /\ (AfterDecision /\ scenB = 2)
          => (gate_status = 1 /\ notified = <<gate_status_string[1]>>)

\* C7 as amended: from "closed", the first window of 3.0 s commits "open" and
\* calls notify once with the first-occurrence label; the second window of
\* 3.0 s leaves "open" current and does not send that label again.
C7_OpenAtFirstWindow ==
    /\ (AfterDecision /\ scenB = 1)
          => (before = 0 /\ gate_status = 1 /\ notified = <<gate_status_string[1]>>)
    /\ (AfterDecision /\ scenB = 2)
          => (before = 1 /\ gate_status = 1
              /\ notified \in {<<>>, <<gate_status_string_repeat[1]>>})

C7_Witness ==
    /\ CycleOver
    /\ scenB = 2
    /\ classified = <<1, 1>>
    /\ notified = <<>>

\* C8 (its first clause): when the last two windows were classified as two
\* different statuses that must be confirmed, the last window did not change
\* gate_status.
C8_OscillationNeverCommits ==
    (AfterDecision /\ classified[1] \in ConfirmedStatuses
        /\ classified[2] \in ConfirmedStatuses /\ classified[1] # classified[2])
        => ~Committed

\* C9: every sampling window ends.
C9_WindowEnds == (pc = "sample") ~> (pc = "classify")

\* C10: the process never reaches a terminated state.
C10_NeverTerminated == pc # "terminated"


\* C11: the value a sampling window returns lies between 0 and 50 readings
\* (0 and 5.0 s).
C11_AtMostFiveSeconds ==
    pc \in {"classify", "decide"}
        => (0 <= on_ticks /\ on_ticks <= 50 /\ 0 <= led_on_count /\ led_on_count <= Five)

\* C12: as long as every window has measured 0 s, gate_status is "closed",
\* nothing awaits confirmation and notify has never been called.
C12_AlwaysClosed ==
    allZero => /\ gate_status = 0
               /\ gate_status_tobeconfirmed = -1
               /\ notified = <<>>
               /\ alertedAt = <<-1, -1>>

\* five and more windows of 0 s have been decided
C12_Witness ==
    /\ allZero
    /\ CycleOver
    /\ classified = <<0, 0>>
    /\ clock >= 5 * ClockStep

\* the measured duration lies in no band of the table
NoBand(d) == \A x \in 0..(Len(gate_status_options) - 1) : ~InBand(d, x)

\* C13 as stated: a window whose duration lies in no band is classified as the
\* window before it was.
C13_AsStated ==
    (AfterDecision /\ NoBand(led_on_count) /\ classified[1] # -1)
        => classified[2] = classified[1]

\* C13 as amended: a window whose duration lies in no band is classified 0
\* ("closed"), whatever the window before it was, and can commit no status
\* but "closed".
C13_NoBandIsClosed ==
    ((pc = "decide" \/ AfterDecision) /\ NoBand(led_on_count))
        => /\ new_gate_status = 0
           /\ AfterDecision => classified[2] = 0
           /\ Committed => gate_status = 0

\* "open" was current and the second window in no band has committed "closed"
C13_Witness ==
    /\ Committed
    /\ NoBand(led_on_count)
    /\ before = 1
    /\ gate_status = 0
    /\ classified = <<0, 0>>

\* C14: the unchanged branch leaves gate_status and gate_status_tobeconfirmed
\* as they were, and gate_status_lastupdate changes only after the call of
\* notify for the repeated alert, to the time read then.
C14_UnchangedFrame ==
    [][/\ (pc = "decide" /\ new_gate_status = gate_status)
            => /\ gate_status' = gate_status
               /\ gate_status_tobeconfirmed' = gate_status_tobeconfirmed
               /\ gate_status_lastupdate' = gate_status_lastupdate
       /\ (pc = "notify_repeat")
            => /\ gate_status' = gate_status
               /\ gate_status_tobeconfirmed' = gate_status_tobeconfirmed
               /\ (gate_status_lastupdate' # gate_status_lastupdate
                     => (notified # <<>> /\ gate_status_lastupdate' = clock'))]_vars

\* an unchanged window of "closed" is over and "power failure" still awaits
\* its confirmation
C14_Witness ==
    /\ CycleOver
    /\ before = gate_status
    /\ classified[2] = gate_status
    /\ gate_status = 0
    /\ gate_status_tobeconfirmed = 2
    /\ notified = <<>>

\* C15: once the cycle that committed a status needing no confirmation is
\* over, gate_status_tobeconfirmed is -1.
C15_PendingCleared ==
    (CycleOver /\ Committed /\ gate_status_confirm[gate_status] = 0)
        => gate_status_tobeconfirmed = -1

\* "open" committed from "power failure" while "closed" awaited confirmation,
\* and the cycle is over
C15_Witness ==
    /\ CycleOver
    /\ Committed
    /\ gate_status = 1
    /\ before = 2
    /\ classified = <<0, 1>>
    /\ gate_status_tobeconfirmed = -1

\* C16: whether the dispatch succeeds or fails, the call of notify is followed
\* by the same state and by the next sampling window.
C16_FireAndForget ==
    [][InNotify
         => /\ pc' = "window"
            /\ gate_status' = gate_status
            /\ gate_status_tobeconfirmed' =
                  IF pc = "notify_repeat" THEN gate_status_tobeconfirmed ELSE -1
            /\ gate_status_lastupdate' =
                  IF pc = "notify_repeat" THEN clock' ELSE gate_status_lastupdate]_vars

\* C17: a pass of the loop restarts the count exactly when the reading is
\* asserted, time_count > 0 and led_on_count = 0, and then credits nothing and
\* leaves time_count 0; any other asserted reading is credited once, an
\* unasserted one is not, and time_count advances by one pass.
C17_PassOfTheLoop ==
    [][(pc = "sample" /\ pc' = "sample")
         => LET restart == pin' = 1 /\ time_count > 0 /\ led_on_count = 0
            IN  /\ pin' \in {0, 1}
                /\ restart <=> (time_count' = 0)
                /\ restart => /\ on_ticks' = on_ticks
                              /\ led_on_count' = led_on_count
                              /\ t_ticks' = 0
                /\ (pin' = 1 /\ ~restart) => /\ on_ticks' = on_ticks + 1
                                             /\ led_on_count' > led_on_count
                /\ pin' = 0 => /\ on_ticks' = on_ticks
                               /\ led_on_count' = led_on_count
                /\ ~restart => /\ t_ticks' = t_ticks + 1
                               /\ time_count' > time_count]_vars

\* a restart has just happened: the last reading was asserted, nothing is
\* credited and the count of time is back at 0
C17_Witness ==
    /\ pc = "sample"
    /\ pin = 1
    /\ first_pin = 0
    /\ time_count = 0
    /\ on_ticks = 0

\* the last window went through the unchanged branch
UnchangedCycle == AfterDecision /\ classified[2] = before /\ before = gate_status

\* C18: while an alertable status stays current, the first window decided at
\* a time >= gate_status_lastupdate + gate_status_wait calls notify with the
\* repeated-occurrence label (no window before it does), and once notify has
\* returned gate_status_lastupdate is the time read then.
C18_RepeatWhenDue ==
    (UnchangedCycle /\ gate_status_report[gate_status] # 0)
        => /\ notified = <<>>
              => /\ pc = "window"
                 /\ readAt < gate_status_lastupdate + gate_status_wait[gate_status]
           /\ notified # <<>>
              => /\ notified = <<gate_status_string_repeat[gate_status]>>
                 /\ alertedAt[2] = readAt
                 /\ pc = "window" => gate_status_lastupdate = clock
                 /\ pc # "window"
                      => readAt >= gate_status_lastupdate + gate_status_wait[gate_status]

\* "open" has lasted, its repeated alert was sent and the cycle is over
C18_Witness ==
    /\ pc = "window"
    /\ UnchangedCycle
    /\ gate_status = 1
    /\ notified = <<gate_status_string_repeat[1]>>
    /\ gate_status_lastupdate = clock
    /\ alertedAt[2] - alertedAt[1] >= gate_status_wait[1]

\* C19: when a cycle is over, gate_status_tobeconfirmed is -1 or a status that
\* must be confirmed, and it is not gate_status.
C19_PendingIsProposal ==
    pc = "window"
        => /\ gate_status_tobeconfirmed \in ({-1} \cup ConfirmedStatuses)
           /\ gate_status_tobeconfirmed # gate_status

\* "closed" awaits confirmation while "open" is current
C19_Witness ==
    /\ CycleOver
    /\ gate_status = 1
    /\ gate_status_tobeconfirmed = 0

\* C20 (its second clause): a window whose first reading is asserted takes
\* exactly 50 readings, and credits no more than it took.
C20_FiftyReadings ==
    (pc = "classify" /\ first_pin = 1) => (t_ticks = 50 /\ on_ticks <= t_ticks)

====
